---- MODULE Spec2Model ----
(***************************************************************************)
(* Model of the OpenLoad API client (src/openload/openload.py).            *)
(*                                                                         *)
(* One caller drives one client instance.  A call builds its parameters,   *)
(* sends a GET through _get, and blocks until the transport delivers the   *)
(* decoded body (or fails); upload_file then goes on to open the local     *)
(* file and POST it to the URL it was given.  The remote service and the   *)
(* transport are the environment: they answer with any envelope.           *)
(***************************************************************************)
EXTENDS Integers, Sequences, FiniteSets, TLC

VARIABLES login, key, pc, call, requests, responses, get_outcome, outcome, fileHandle

vars == <<login, key, pc, call, requests, responses, get_outcome, outcome, fileHandle>>

(***************************************************************************)
(* Bounds and input domains                                                *)
(***************************************************************************)

\* largest number of keyword arguments a caller passes in one call
MaxKwargs == 2

ApiLogins == {"L1", "L2"}
ApiKeys == {"K1"}

\* Python values an argument can take: None, the empty string, False, a non-empty string
PyNone == "<None>"
PyFalse == "<False>"
Values == {PyNone, "", PyFalse, "v1"}

\* values of a keyword argument that is passed; one that is not passed is
\* not in the bag
KwValues == {"", PyFalse, "v1"}

FileIds == {"TJNMUk2hnYs"}
Tickets == {"abc123"}
RemoteUrls == {"http://example.org/a.bin"}
FilePaths == {"/tmp/present.bin", "/tmp/missing.bin"}

\* the status codes the service may answer with: the success code, every code
\* of the classification, codes at and above 500, and codes the classification
\* does not list
Statuses == {200, 400, 401, 403, 404, 410, 451, 500, 503, 509}

\* the messages the service may put in `msg`
Msgs == {"msg one", "msg two"}

\* JSON values of `result`: null, a string, an object without a `url` member
\* and an object with one.  t is the JSON type, v the string or the url member.
NoValue == [t |-> "none", v |-> ""]
JsonResults == {[t |-> "null", v |-> ""],
                [t |-> "str", v |-> ""],
                [t |-> "dict", v |-> ""],
                [t |-> "dict", v |-> "https://up.example/ul/1"]}

\* a decoded response body; hasResult tells whether the `result` member exists
Envelopes == [ok : {TRUE}, status : Statuses, msg : Msgs, hasResult : {TRUE}, result : JsonResults]
             \cup [ok : {TRUE}, status : Statuses, msg : Msgs, hasResult : {FALSE}, result : {NoValue}]

\* the transport failed or the body was not JSON
TransportFailure == [ok |-> FALSE, status |-> 0, msg |-> "", hasResult |-> FALSE, result |-> NoValue]

Responses == Envelopes \cup {TransportFailure}

\* keyword-argument bags: the documented names of an operation plus the two
\* names that collide with the credentials
KwargsOver(names) == UNION {[S -> KwValues] : S \in {T \in SUBSET names : Cardinality(T) <= MaxKwargs}}

UploadLinkKwNames == {"folder", "sha1", "httponly", "login", "key"}
UploadFileKwNames == {"folder", "sha1", "httponly"}
RemoteUploadKwNames == {"folder", "headers", "login", "key"}
RemoteStatusKwNames == {"limit", "id", "login", "key"}

(***************************************************************************)
(* Outcomes of a call                                                      *)
(***************************************************************************)

NoOutcome == [kind |-> "none", exc |-> "", msg |-> "", value |-> NoValue]
Return(v) == [kind |-> "return", exc |-> "", msg |-> "", value |-> v]
Raise(e, m) == [kind |-> "raise", exc |-> e, msg |-> m, value |-> NoValue]

(***************************************************************************)
(* OpenLoad                                                                *)
(***************************************************************************)

api_version == "1"
api_base_url == "https://api.openload.co/"
api_url == api_base_url \o api_version \o "/"

\* truth value of a Python object in `if value`
Truthy(v) == v \notin {PyNone, "", PyFalse}

\* dict.update: the entries of g win over those of f
DictUpdate(f, g) == [k \in (DOMAIN f) \cup (DOMAIN g) |-> IF k \in DOMAIN g THEN g[k] ELSE f[k]]

EmptyDict == [k \in {} |-> ""]

\* variant: the comprehension without its `if value`
FilterKwargs_unfiltered(kwargs) == kwargs

\* {key: value for key, value in kwargs.items() if value}
FilterKwargs(kwargs) == [k \in {n \in DOMAIN kwargs : Truthy(kwargs[n])} |-> kwargs[k]]

\* _check_status: the exception it raises, exc = "" when it raises none
NoError == [exc |-> "", msg |-> ""]

\* variant: the test for 500 and above placed before the test for 509
CheckStatus_order(response_json) ==
    LET status == response_json.status
        msg == response_json.msg
    IN  IF status = 400 THEN [exc |-> "BadRequestException", msg |-> msg]
        ELSE IF status = 403 THEN [exc |-> "PermissionDeniedException", msg |-> msg]
        ELSE IF status = 404 THEN [exc |-> "FileNotFoundException", msg |-> msg]
        ELSE IF status = 451 THEN [exc |-> "UnavailableForLegalReasonsException", msg |-> msg]
        ELSE IF status >= 500 THEN [exc |-> "ServerErrorException", msg |-> msg]
        ELSE IF status = 509 THEN [exc |-> "BandwidthUsageExceeded", msg |-> msg]
        ELSE NoError

\* variant: every status other than 200 raises
CheckStatus_strict(response_json) ==
    LET status == response_json.status
        msg == response_json.msg
    IN  IF status = 400 THEN [exc |-> "BadRequestException", msg |-> msg]
        ELSE IF status = 403 THEN [exc |-> "PermissionDeniedException", msg |-> msg]
        ELSE IF status = 404 THEN [exc |-> "FileNotFoundException", msg |-> msg]
        ELSE IF status = 451 THEN [exc |-> "UnavailableForLegalReasonsException", msg |-> msg]
        ELSE IF status = 509 THEN [exc |-> "BandwidthUsageExceeded", msg |-> msg]
        ELSE IF status # 200 THEN [exc |-> "ServerErrorException", msg |-> msg]
        ELSE NoError

CheckStatus(response_json) ==
    LET status == response_json.status
        msg == response_json.msg
    IN  IF status = 400 THEN [exc |-> "BadRequestException", msg |-> msg]
        ELSE IF status = 403 THEN [exc |-> "PermissionDeniedException", msg |-> msg]
        ELSE IF status = 404 THEN [exc |-> "FileNotFoundException", msg |-> msg]
        ELSE IF status = 451 THEN [exc |-> "UnavailableForLegalReasonsException", msg |-> msg]
        ELSE IF status = 509 THEN [exc |-> "BandwidthUsageExceeded", msg |-> msg]
        ELSE IF status >= 500 THEN [exc |-> "ServerErrorException", msg |-> msg]
        ELSE NoError

\* response_json['result']
ReadResult(response_json) ==
    IF response_json.hasResult THEN Return(response_json.result) ELSE Raise("KeyError", "result")

\* variant: a falsy result replaced by None (`result or None`)
ProcessResponse_falsy(response_json) ==
    LET e == CheckStatus(response_json)
        r == ReadResult(response_json)
    IN  IF e.exc # "" THEN Raise(e.exc, e.msg)
        ELSE IF r.kind = "return" /\ r.value = [t |-> "str", v |-> ""]
             THEN Return([t |-> "null", v |-> ""])
             ELSE r

\* _process_response
ProcessResponse(response_json) ==
    LET e == CheckStatus(response_json)
    IN  IF e.exc # "" THEN Raise(e.exc, e.msg) ELSE ReadResult(response_json)

\* variant: the credentials as defaults (setdefault), the caller's entries win
MergeCredentials_callerWins(params, api_login, api_key) ==
    DictUpdate([k \in {"login", "key"} |-> IF k = "login" THEN api_login ELSE api_key], params)

\* params.update({'login': self.login, 'key': self.key})
MergeCredentials(params, api_login, api_key) ==
    DictUpdate(params, [k \in {"login", "key"} |-> IF k = "login" THEN api_login ELSE api_key])

\* the request _get sends
GetRequest(url, params) ==
    [method |-> "GET", url |-> api_url \o url,
     params |-> MergeCredentials(params, login, key), files |-> ""]

\* variant: the POST sent with the credentials as its query
PostRequest_withCredentials(upload_url, file_path) ==
    [method |-> "POST", url |-> upload_url,
     params |-> [k \in {"login", "key"} |-> IF k = "login" THEN login ELSE key],
     files |-> file_path]

\* the request upload_file sends in its second step
PostRequest(upload_url, file_path) ==
    [method |-> "POST", url |-> upload_url, params |-> EmptyDict, files |-> file_path]

\* parameters of get_download_link
DownloadLinkParams(file_id, ticket, captcha_response) ==
    LET params == [k \in {"ticket", "file"} |-> IF k = "ticket" THEN ticket ELSE file_id]
    IN  IF Truthy(captcha_response)
        THEN DictUpdate(params, [k \in {"captcha_response"} |-> captcha_response])
        ELSE params

\* parameters of remote_upload
RemoteUploadParams(remote_url, kwargs) ==
    DictUpdate([k \in {"url"} |-> remote_url], FilterKwargs(kwargs))

\* parameters of list_folder and running_conversions
FolderParams(folder_id) ==
    IF Truthy(folder_id) THEN [k \in {"folder"} |-> folder_id] ELSE EmptyDict

\* parameters of the operations that name one file
FileParams(file_id) == [k \in {"file"} |-> file_id]

\* upload_url_response_json['url']
UploadUrlOf(v) ==
    IF v.t = "dict"
    THEN IF v.v # "" THEN Return(v) ELSE Raise("KeyError", "url")
    ELSE Raise("TypeError", "url")

\* open(file_path, 'rb') succeeds
FileExists(file_path) == file_path = "/tmp/present.bin"

NoCall == [op |-> "", file_id |-> "", ticket |-> "", captcha_response |-> PyNone,
           folder_id |-> PyNone, remote_url |-> "", file_path |-> "", kwargs |-> EmptyDict]

\* a call that has sent its GET and waits for the body
Send(c, url, params) ==
    /\ pc = "idle"
    /\ pc' = "get_wait"
    /\ call' = c
    /\ requests' = <<GetRequest(url, params)>>
    /\ responses' = <<>>
    /\ get_outcome' = NoOutcome
    /\ outcome' = NoOutcome
    /\ fileHandle' = "unopened"
    /\ UNCHANGED <<login, key>>

account_info ==
    Send([NoCall EXCEPT !.op = "account_info"], "account/info", EmptyDict)

prepare_download ==
    \E file_id \in FileIds :
        Send([NoCall EXCEPT !.op = "prepare_download", !.file_id = file_id],
             "file/dlticket", FileParams(file_id))

get_download_link ==
    \E file_id \in FileIds, ticket \in Tickets, captcha_response \in Values :
        Send([NoCall EXCEPT !.op = "get_download_link", !.file_id = file_id,
                            !.ticket = ticket, !.captcha_response = captcha_response],
             "file/dl", DownloadLinkParams(file_id, ticket, captcha_response))

file_info ==
    \E file_id \in FileIds :
        Send([NoCall EXCEPT !.op = "file_info", !.file_id = file_id],
             "file/info", FileParams(file_id))

upload_link ==
    \E kwargs \in KwargsOver(UploadLinkKwNames) :
        Send([NoCall EXCEPT !.op = "upload_link", !.kwargs = kwargs],
             "file/ul", FilterKwargs(kwargs))

\* upload_file up to the GET of its call to upload_link
upload_file ==
    \E file_path \in FilePaths, kwargs \in KwargsOver(UploadFileKwNames) :
        Send([NoCall EXCEPT !.op = "upload_file", !.file_path = file_path, !.kwargs = kwargs],
             "file/ul", FilterKwargs(kwargs))

remote_upload ==
    \E remote_url \in RemoteUrls, kwargs \in KwargsOver(RemoteUploadKwNames) :
        Send([NoCall EXCEPT !.op = "remote_upload", !.remote_url = remote_url, !.kwargs = kwargs],
             "remotedl/add", RemoteUploadParams(remote_url, kwargs))

remote_upload_status ==
    \E kwargs \in KwargsOver(RemoteStatusKwNames) :
        Send([NoCall EXCEPT !.op = "remote_upload_status", !.kwargs = kwargs],
             "remotedl/status", FilterKwargs(kwargs))

list_folder ==
    \E folder_id \in Values :
        Send([NoCall EXCEPT !.op = "list_folder", !.folder_id = folder_id],
             "file/listfolder", FolderParams(folder_id))

convert_file ==
    \E file_id \in FileIds :
        Send([NoCall EXCEPT !.op = "convert_file", !.file_id = file_id],
             "file/convert", FileParams(file_id))

running_conversions ==
    \E folder_id \in Values :
        Send([NoCall EXCEPT !.op = "running_conversions", !.folder_id = folder_id],
             "file/runningconverts", FolderParams(folder_id))

splash_image ==
    \E file_id \in FileIds :
        Send([NoCall EXCEPT !.op = "splash_image", !.file_id = file_id],
             "file/getsplash", FileParams(file_id))

\* raise NotImplementedError
FailedConversionsOutcome_default == Return([t |-> "null", v |-> ""])

FailedConversionsOutcome == Raise("NotImplementedError", "")

failed_conversions ==
    /\ pc = "idle"
    /\ pc' = "done"
    /\ call' = [NoCall EXCEPT !.op = "failed_conversions"]
    /\ requests' = <<>>
    /\ responses' = <<>>
    /\ get_outcome' = NoOutcome
    /\ outcome' = FailedConversionsOutcome
    /\ fileHandle' = "unopened"
    /\ UNCHANGED <<login, key>>

\* requests.get(...).json() of a failed exchange
TransportError == Raise("TransportError", "")

\* what _get makes of the answer to its GET
GetOutcomeOf(r) == IF r.ok THEN ProcessResponse(r) ELSE TransportError

\* upload_file after its call to upload_link ended with g: what it raises
\* before the POST, or NoOutcome when it goes on to POST.  An exception of
\* upload_link propagates; then the url is read, then the file is opened.
AfterUploadLink_swallow(g, file_path) ==
    IF ~FileExists(file_path) THEN Raise("IOError", file_path) ELSE NoOutcome

AfterUploadLink(g, file_path) ==
    IF g.kind = "raise" THEN g
    ELSE LET u == UploadUrlOf(g.value)
         IN  IF u.kind = "raise" THEN u
             ELSE IF ~FileExists(file_path) THEN Raise("IOError", file_path)
             ELSE NoOutcome

\* _get returns or raises; every operation but upload_file ends with it
GetResponse ==
    /\ pc = "get_wait"
    /\ \E r \in Responses :
        LET g == GetOutcomeOf(r)
            a == AfterUploadLink(g, call.file_path)
        IN  /\ responses' = Append(responses, r)
            /\ get_outcome' = g
            /\ IF call.op = "upload_file" /\ a.kind = "none"
               THEN /\ pc' = "post_wait"
                    /\ requests' = Append(requests, PostRequest(g.value.v, call.file_path))
                    /\ fileHandle' = "open"
                    /\ outcome' = NoOutcome
               ELSE /\ pc' = "done"
                    /\ outcome' = IF call.op = "upload_file" THEN a ELSE g
                    /\ UNCHANGED <<requests, fileHandle>>
    /\ UNCHANGED <<login, key, call>>

\* variant: the result returned without the call to _check_status
PostOutcomeOf_unchecked(r) == IF ~r.ok THEN TransportError ELSE ReadResult(r)

\* what upload_file makes of the answer to its POST
PostOutcomeOf(r) ==
    IF ~r.ok THEN TransportError
    ELSE LET e == CheckStatus(r)
         IN  IF e.exc # "" THEN Raise(e.exc, e.msg) ELSE ReadResult(r)

\* upload_file from the answer to its POST to its end.  Nothing closes the
\* file object; whether the runtime has finalised it by then is not decided
\* by this code.
PostResponse ==
    /\ pc = "post_wait"
    /\ \E r \in Responses :
        /\ responses' = Append(responses, r)
        /\ outcome' = PostOutcomeOf(r)
    /\ fileHandle' \in {"open", "closed"}
    /\ pc' = "done"
    /\ UNCHANGED <<login, key, call, requests, get_outcome>>

\* the call is over: its locals are gone and the instance, which no call
\* writes, is ready for the next one
Finish ==
    /\ pc = "done"
    /\ pc' = "idle"
    /\ call' = NoCall
    /\ requests' = <<>>
    /\ responses' = <<>>
    /\ get_outcome' = NoOutcome
    /\ outcome' = NoOutcome
    /\ fileHandle' = "unopened"
    /\ UNCHANGED <<login, key>>

Init ==
    /\ login \in ApiLogins
    /\ key \in ApiKeys
    /\ pc = "idle"
    /\ call = NoCall
    /\ requests = <<>>
    /\ responses = <<>>
    /\ get_outcome = NoOutcome
    /\ outcome = NoOutcome
    /\ fileHandle = "unopened"

Next ==
    \/ account_info
    \/ prepare_download
    \/ get_download_link
    \/ file_info
    \/ upload_link
    \/ upload_file
    \/ remote_upload
    \/ remote_upload_status
    \/ list_folder
    \/ convert_file
    \/ running_conversions
    \/ failed_conversions
    \/ splash_image
    \/ GetResponse
    \/ PostResponse
    \/ Finish

Spec == Init /\ [][Next]_vars

(***************************************************************************)
(* Properties                                                              *)
(***************************************************************************)

\* the classification table: the exception a status stands for, "" for none
ClassifiedKind(status) ==
    CASE status = 400 -> "BadRequestException"
      [] status = 403 -> "PermissionDeniedException"
      [] status = 404 -> "FileNotFoundException"
      [] status = 451 -> "UnavailableForLegalReasonsException"
      [] status = 509 -> "BandwidthUsageExceeded"
      [] status >= 500 /\ status # 509 -> "ServerErrorException"
      [] OTHER -> ""

\* the GET of the current call has been answered with an envelope
GetAnswered == Len(responses) >= 1 /\ responses[1].ok

\* the POST of the current call has been answered with an envelope
PostAnswered == Len(responses) = 2 /\ responses[2].ok

\* the request primitive: the operations that return what _get returns
ReadOps == {"account_info", "prepare_download", "get_download_link", "file_info",
            "upload_link", "remote_upload", "remote_upload_status", "list_folder",
            "convert_file", "running_conversions", "splash_image"}

\* C1: an envelope whose status is 400, 403, 404, 451, 509 or another value
\* of 500 and above makes _get raise the exception of that status with the
\* envelope's msg, whether or not the envelope has a result; an operation
\* that returns what _get returns ends with that exception.
C1_ErrorStatusRaises ==
    (GetAnswered /\ ClassifiedKind(responses[1].status) # "")
        => /\ get_outcome = Raise(ClassifiedKind(responses[1].status), responses[1].msg)
           /\ pc = "done" => outcome = get_outcome

C1_Witness ==
    /\ pc = "done"
    /\ GetAnswered
    /\ responses[1].status = 509
    /\ ~responses[1].hasResult
    /\ outcome = Raise("BandwidthUsageExceeded", responses[1].msg)

\* C2: an envelope with status 200 and a result makes _get return exactly
\* that result and raise nothing, and every read operation returns what
\* _get returned.
C2_SuccessReturnsResult ==
    (GetAnswered /\ responses[1].status = 200 /\ responses[1].hasResult)
        => /\ get_outcome = Return(responses[1].result)
           /\ (pc = "done" /\ call.op \in ReadOps) => outcome = Return(responses[1].result)

C2_Witness ==
    /\ pc = "done"
    /\ call.op = "list_folder"
    /\ GetAnswered
    /\ responses[1].status = 200
    /\ responses[1].result = [t |-> "str", v |-> ""]
    /\ outcome = Return([t |-> "str", v |-> ""])

\* C3: every GET carries login and key with the values given at
\* construction, also when the caller passed keyword arguments of those names.
C3_CredentialsWin ==
    \A i \in 1..Len(requests) :
        requests[i].method = "GET"
            => /\ {"login", "key"} \subseteq DOMAIN requests[i].params
               /\ requests[i].params["login"] = login
               /\ requests[i].params["key"] = key

C3_Witness ==
    /\ call.op \in {"upload_link", "remote_upload", "remote_upload_status"}
    /\ {"login", "key"} \subseteq DOMAIN call.kwargs
    /\ call.kwargs["login"] = "v1"
    /\ call.kwargs["key"] = "v1"
    /\ Len(requests) = 1
    /\ requests[1].params["login"] = login

\* a POST is among the requests of the current call
PostSent == \E i \in 1..Len(requests) : requests[i].method = "POST"

\* C4: upload_file sends its POST only after its upload_link step returned
\* without an exception, on an envelope the classification let pass; when
\* that step raised, no POST is sent.
C4_NoPostAfterFailedLink ==
    /\ PostSent => /\ call.op = "upload_file"
                   /\ get_outcome.kind = "return"
                   /\ GetAnswered
                   /\ ClassifiedKind(responses[1].status) = ""
    /\ (call.op = "upload_file" /\ get_outcome.kind = "raise")
           => (~PostSent /\ pc = "done" /\ outcome = get_outcome)

C4_Witness ==
    /\ call.op = "upload_file"
    /\ call.file_path = "/tmp/present.bin"
    /\ pc = "done"
    /\ get_outcome.kind = "raise"
    /\ get_outcome.exc = "PermissionDeniedException"
    /\ ~PostSent

\* the optional arguments of an operation, and the keys it always sends
OptionalArgs(op) ==
    CASE op = "get_download_link" -> {"captcha_response"}
      [] op \in {"upload_link", "upload_file"} -> {"folder", "sha1", "httponly"}
      [] op = "remote_upload" -> {"folder", "headers"}
      [] op = "remote_upload_status" -> {"limit", "id"}
      [] op \in {"list_folder", "running_conversions"} -> {"folder"}
      [] OTHER -> {}

BaseKeys(op) ==
    CASE op = "get_download_link" -> {"file", "ticket"}
      [] op \in {"prepare_download", "file_info", "convert_file", "splash_image"} -> {"file"}
      [] op = "remote_upload" -> {"url"}
      [] OTHER -> {}

\* the value the caller gave to optional argument k (None when not passed)
ArgOf(c, k) ==
    CASE c.op = "get_download_link" -> c.captcha_response
      [] c.op \in {"list_folder", "running_conversions"} -> c.folder_id
      [] OTHER -> IF k \in DOMAIN c.kwargs THEN c.kwargs[k] ELSE PyNone

\* absent (None) or empty; False counts as not set
AbsentOrEmpty(v) == v \in {PyNone, "", PyFalse}

\* the call c with optional argument k left out
Omit(c, k) ==
    CASE c.op = "get_download_link" -> [c EXCEPT !.captcha_response = PyNone]
      [] c.op \in {"list_folder", "running_conversions"} -> [c EXCEPT !.folder_id = PyNone]
      [] OTHER -> [c EXCEPT !.kwargs = [n \in (DOMAIN c.kwargs) \ {k} |-> c.kwargs[n]]]

\* the query the operation of call c hands to _get
QueryOf(c) ==
    CASE c.op = "get_download_link" -> DownloadLinkParams(c.file_id, c.ticket, c.captcha_response)
      [] c.op \in {"prepare_download", "file_info", "convert_file", "splash_image"} -> FileParams(c.file_id)
      [] c.op \in {"upload_link", "upload_file", "remote_upload_status"} -> FilterKwargs(c.kwargs)
      [] c.op = "remote_upload" -> RemoteUploadParams(c.remote_url, c.kwargs)
      [] c.op \in {"list_folder", "running_conversions"} -> FolderParams(c.folder_id)
      [] OTHER -> EmptyDict

\* C5: an optional argument that is absent or empty is not among the keys of
\* the query sent; one that is supplied is sent with its value, and the same
\* call without it sends the same keys but that one (a strict subset).
\* Besides the credentials get_download_link sends file and ticket, and
\* captcha_response exactly when it is supplied; list_folder without an
\* argument sends no folder.
C5_OptionalOmitted ==
    Len(requests) >= 1 =>
        LET sent == requests[1].params
            keys == DOMAIN sent
        IN  /\ sent = MergeCredentials(QueryOf(call), login, key)
            /\ \A k \in OptionalArgs(call.op) :
                 IF AbsentOrEmpty(ArgOf(call, k))
                 THEN k \notin keys
                 ELSE /\ k \in keys
                      /\ sent[k] = ArgOf(call, k)
                      /\ DOMAIN MergeCredentials(QueryOf(Omit(call, k)), login, key) = keys \ {k}
            /\ keys \ {"login", "key"} \subseteq BaseKeys(call.op) \cup OptionalArgs(call.op)
            /\ BaseKeys(call.op) \subseteq keys

C5_Witness ==
    /\ call.op = "get_download_link"
    /\ call.captcha_response = "v1"
    /\ Len(requests) = 1
    /\ DOMAIN requests[1].params = {"file", "ticket", "captcha_response", "login", "key"}

\* C6 as stated: every request the client sends, the POST of upload_file
\* included, carries the login and key of the client.
C6_EveryRequestCarriesCredentials ==
    \A i \in 1..Len(requests) :
        /\ {"login", "key"} \subseteq DOMAIN requests[i].params
        /\ requests[i].params["login"] = login
        /\ requests[i].params["key"] = key

\* C6 amended: every GET carries the two credential parameters; the POST of
\* upload_file goes to the url upload_link returned, with the file as its
\* body and no query parameter, so without the credentials.
C6_GetCarriesCredentialsPostNone ==
    \A i \in 1..Len(requests) :
        IF requests[i].method = "POST"
        THEN /\ i = 2
             /\ requests[i].params = EmptyDict
             /\ requests[i].url = get_outcome.value.v
             /\ requests[i].files = call.file_path
        ELSE /\ i = 1
             /\ "login" \in DOMAIN requests[i].params /\ "key" \in DOMAIN requests[i].params
             /\ <<requests[i].params["login"], requests[i].params["key"]>> = <<login, key>>

C6_Witness ==
    /\ call.op = "upload_file"
    /\ Len(requests) = 2
    /\ requests[2].method = "POST"
    /\ requests[2].url = "https://up.example/ul/1"

\* C7 as stated: upload_file never ends with the file it opened still open.
C7_HandleReleased ==
    (pc = "done" /\ call.op = "upload_file" /\ PostSent) => fileHandle = "closed"

\* C8: failed_conversions raises NotImplementedError, returns nothing and
\* sends no request, whatever was called before.
C8_FailedConversionsRaises ==
    call.op = "failed_conversions"
        => /\ pc = "done"
           /\ outcome = Raise("NotImplementedError", "")
           /\ requests = <<>>
           /\ responses = <<>>

C8_Witness ==
    /\ call.op = "failed_conversions"
    /\ outcome.kind = "raise"
    /\ outcome.exc = "NotImplementedError"
    /\ login = "L2"

\* a status that is not 200 and that the classification does not list
Unlisted(status) == status # 200 /\ ClassifiedKind(status) = ""

C10_PostProcessedAsGet ==
    (pc = "done" /\ call.op = "upload_file" /\ PostAnswered)
        => /\ outcome = ProcessResponse(responses[2])
           /\ ClassifiedKind(responses[2].status) # ""
                => outcome = Raise(ClassifiedKind(responses[2].status), responses[2].msg)
           /\ get_outcome.kind = "return"

C10_Witness ==
    /\ pc = "done"
    /\ call.op = "upload_file"
    /\ PostAnswered
    /\ responses[1].status = 200
    /\ responses[2].status = 403
    /\ outcome = Raise("PermissionDeniedException", responses[2].msg)

====
